---------------------------- MODULE Spec2Model ----------------------------
(***************************************************************************)
(* Model of safeCRUD: the GET and POST request helpers, the URL builder    *)
(* they share, and the error classes they raise.                           *)
(*                                                                         *)
(* JavaScript values are tagged records (field t names the type).  A       *)
(* string that is read as a URL is kept in the components the WHATWG URL   *)
(* parser splits it into, so that parsing, normalisation and joining are   *)
(* computed and not assumed.  A call of a function that may throw yields   *)
(* Ret(v) or Throw(e).                                                     *)
(***************************************************************************)
EXTENDS Integers, Sequences, FiniteSets, TLC

(* ------------------------------ bounds -------------------------------- *)
\* number of calls that may be in flight together
NumCalls == 2
\* longest path (in segments) of the URL strings that are tried
MaxPath == 2

(* --------------------------- JavaScript values ------------------------ *)
Undef == [t |-> "undefined"]
Str(s) == [t |-> "string", s |-> s]
Num(n) == [t |-> "number", n |-> n]
Bool(b) == [t |-> "boolean", b |-> b]
\* an object literal with string-valued keys, in insertion order
Obj(entries) == [t |-> "object", entries |-> entries]

\* a string seen as URL text: "<scheme>://<host>/<seg>/<seg>..." ; a missing
\* scheme or host is "", abs tells whether the path part starts with "/"
UrlText(scheme, host, abs, segs) ==
    [t |-> "string", scheme |-> scheme, host |-> host, abs |-> abs,
     segs |-> segs, query |-> <<>>]
EmptyString == UrlText("", "", FALSE, <<>>)

\* JavaScript truthiness of an optional string / object / function
Truthy(v) == v # Undef /\ v # EmptyString /\ v # Str("")

Ret(v) == [thrown |-> FALSE, v |-> v]
Throw(e) == [thrown |-> TRUE, v |-> e]

(* ------------------------------ errors -------------------------------- *)
\* class is the identity of the constructor: two classes declared in two
\* modules are different classes even when they have the same name
NewError(class, message) ==
    [t |-> "error", class |-> class, name |-> class, message |-> message]
IsError(e) == e.t = "error"
\* String(x) of a thrown value
String(v) ==
    CASE v.t = "error" -> v.name \o ": " \o v.message
      [] v.t = "string" /\ "s" \in DOMAIN v -> v.s
      [] v.t = "number" -> ToString(v.n)
      [] v.t = "boolean" -> (IF v.b THEN "true" ELSE "false")
      [] OTHER -> "[object Object]"

(* --------------------------- the URL parser --------------------------- *)
Lower(s) ==
    CASE s = "HTTP" -> "http"
      [] s = "A.COM" -> "a.com"
      [] OTHER -> s

Shorten(path) ==
    IF path = <<>> THEN <<>> ELSE SubSeq(path, 1, Len(path) - 1)

\* the parser's path state: "." and ".." segments are resolved, a path that
\* ends in one of them (or is empty) ends in an empty segment
RECURSIVE PathState(_, _)
PathState(path, segs) ==
    IF segs = <<>> THEN Append(path, "")
    ELSE LET h == Head(segs)
             last == Len(segs) = 1
             p == CASE h = ".." -> IF last THEN Append(Shorten(path), "")
                                   ELSE Shorten(path)
                    [] h = "." -> IF last THEN Append(path, "") ELSE path
                    [] OTHER -> Append(path, h)
         IN IF last THEN p ELSE PathState(p, Tail(segs))

InvalidURL == NewError("TypeError", "Invalid URL")

\* new URL(url).toString()
ParseUrl(u) ==
    IF u.scheme = "" \/ u.host = "" THEN Throw(InvalidURL)
    ELSE Ret(UrlText(Lower(u.scheme), Lower(u.host), TRUE,
                     PathState(<<>>, u.segs)))

\* new URL(route, baseUrl).toString()
ParseUrlWithBase(r, b) ==
    LET base == ParseUrl(b) IN
    IF base.thrown THEN Throw(InvalidURL)
    ELSE IF r.scheme # "" THEN ParseUrl(r)
    ELSE IF r.host # ""
         THEN Ret(UrlText(base.v.scheme, Lower(r.host), TRUE,
                          PathState(<<>>, r.segs)))
    ELSE IF r.abs THEN Ret(UrlText(base.v.scheme, base.v.host, TRUE,
                                   PathState(<<>>, r.segs)))
    ELSE IF r.segs = <<>> THEN base
    ELSE Ret(UrlText(base.v.scheme, base.v.host, TRUE,
                     PathState(Shorten(base.v.segs), r.segs)))

(* ------------------------------ buildUrl ------------------------------ *)
MissingMsg ==
    "Either 'url' or both 'baseUrl' and 'route' must be provided and valid"

InvalidUrlError(error) ==
    NewError("Error",
             "Invalid URL: " \o (IF IsError(error) THEN error.message
                                 ELSE String(error)))

\* buildUrl as it would be if the pair were tried before url
buildUrlTry_pairFirst(baseUrl, route, url) ==
    IF Truthy(baseUrl) /\ Truthy(route) THEN ParseUrlWithBase(route, baseUrl)
    ELSE IF Truthy(url) THEN ParseUrl(url)
    ELSE Throw(NewError("Error", MissingMsg))

\* the body of the try block
buildUrlTry(baseUrl, route, url) ==
    IF Truthy(url) THEN ParseUrl(url)
    ELSE IF Truthy(baseUrl) /\ Truthy(route)
         THEN ParseUrlWithBase(route, baseUrl)
    ELSE Throw(NewError("Error", MissingMsg))

\* utils/toolkit buildUrl, the one GET calls
buildUrl(baseUrl, route, url) ==
    LET r == buildUrlTry(baseUrl, route, url) IN
    IF r.thrown THEN Throw(InvalidUrlError(r.v)) ELSE r

\* the copy as it would be if a malformed url fell back to the pair
POST_buildUrlTry_fallback(baseUrl, route, url) ==
    IF Truthy(url) /\ ~ParseUrl(url).thrown THEN ParseUrl(url)
    ELSE IF Truthy(baseUrl) /\ Truthy(route)
         THEN ParseUrlWithBase(route, baseUrl)
    ELSE Throw(NewError("Error", MissingMsg))

\* the private copy of buildUrl in methods/post.ts, the one POST calls
POST_buildUrlTry(baseUrl, route, url) ==
    IF Truthy(url) THEN ParseUrl(url)
    ELSE IF Truthy(baseUrl) /\ Truthy(route)
         THEN ParseUrlWithBase(route, baseUrl)
    ELSE Throw(NewError("Error", MissingMsg))

POST_buildUrl(baseUrl, route, url) ==
    LET r == POST_buildUrlTry(baseUrl, route, url) IN
    IF r.thrown THEN Throw(InvalidUrlError(r.v)) ELSE r


(* ---------------------------- error classes --------------------------- *)
\* utils/classes HttpError and ValidationError: the classes GET imports and
\* the package index re-exports
HttpErrorClass == "utils/classes:HttpError"
ValidationErrorClass == "utils/classes:ValidationError"
HttpError(status, message) ==
    [t |-> "error", class |-> HttpErrorClass, name |-> "HttpError",
     message |-> message, status |-> status]
ValidationError(zodError) ==
    [t |-> "error", class |-> ValidationErrorClass, name |-> "ValidationError",
     message |-> "Validation failed", zodError |-> zodError]

\* the classes of the same names that methods/post.ts declares for itself
POST_HttpErrorClass == "methods/post:HttpError"
POST_ValidationErrorClass == "methods/post:ValidationError"
POST_HttpError(status, message) ==
    [t |-> "error", class |-> POST_HttpErrorClass, name |-> "HttpError",
     message |-> message, status |-> status]
POST_ValidationError(zodError) ==
    [t |-> "error", class |-> POST_ValidationErrorClass,
     name |-> "ValidationError", message |-> "Validation failed",
     zodError |-> zodError]

\* what index.ts exports under the names HttpError and ValidationError
ExportedHttpError == HttpErrorClass
ExportedValidationError == ValidationErrorClass

\* e instanceof C  (none of the classes above extends another of them)
InstanceOf(e, class) == IsError(e) /\ e.class = class

(* ----------------------------- ContentType ---------------------------- *)
JSON == "application/json"
FORM_URLENCODED == "application/x-www-form-urlencoded"
TEXT == "text/plain"
XML == "application/xml"
HTML == "text/html"
ContentType == {JSON, FORM_URLENCODED, TEXT, XML, HTML}

\* a destructuring default:  { x = d }
Default(v, d) == IF v = Undef THEN d ELSE v

(* -------------------------- the schema engine ------------------------- *)
\* the two schemas that are tried:
\*   "id"   z.object({ id: z.string() })   (unknown keys are stripped)
\*   "trim" z.string().trim()
Schema(kind) == [t |-> "schema", kind |-> kind]
ZodError(issue) ==
    [t |-> "error", class |-> "zod:ZodError", name |-> "ZodError",
     message |-> issue]

Trim(s) ==
    CASE s = " ok " -> "ok"
      [] s = " <p>hi</p> " -> "<p>hi</p>"
      [] OTHER -> s

HasKey(entries, k) == \E i \in 1..Len(entries) : entries[i][1] = k
ValueOf(entries, k) ==
    entries[CHOOSE i \in 1..Len(entries) : entries[i][1] = k][2]

\* schema.safeParse(data)
zodSafeParse(schema, data) ==
    IF schema.kind = "id"
    THEN IF data.t # "object"
         THEN [success |-> FALSE,
               error |-> ZodError("Expected object, received " \o data.t)]
         ELSE IF ~HasKey(data.entries, "id")
         THEN [success |-> FALSE, error |-> ZodError("id: Required")]
         ELSE [success |-> TRUE,
               data |-> Obj(<< <<"id", ValueOf(data.entries, "id")>> >>)]
    ELSE IF data.t # "string"
         THEN [success |-> FALSE,
               error |-> ZodError("Expected string, received " \o data.t)]
         ELSE [success |-> TRUE, data |-> Str(Trim(data.s))]

\* schema.parse(data): the validated data, or the ZodError itself is thrown
zodParse(schema, data) ==
    LET result == zodSafeParse(schema, data) IN
    IF result.success THEN Ret(result.data) ELSE Throw(result.error)

(* ---------------------- the transport and its bodies ------------------ *)
RawJ1 == "{\"id\":\"7\",\"x\":\"1\"}"
RawJ2 == "{\"n\":\"1\"}"
RawJ3 == "\" ok \""
RawT1 == " <p>hi</p> "
RawBodies == {RawJ1, RawJ2, RawJ3, RawT1}

\* response.json()
JSONParse(raw) ==
    CASE raw = RawJ1 -> Ret(Obj(<< <<"id", "7">>, <<"x", "1">> >>))
      [] raw = RawJ2 -> Ret(Obj(<< <<"n", "1">> >>))
      [] raw = RawJ3 -> Ret(Str(" ok "))
      [] OTHER -> Throw(NewError("SyntaxError", "Unexpected token < in JSON"))

\* response.text()
ReadText(raw) == Ret(Str(raw))

Response(status, body) == [status |-> status, body |-> body]
\* response.ok
Ok(response) == response.status >= 200 /\ response.status <= 299

Statuses == {199, 200, 299, 300, 404}
\* what awaiting fetch(...) can produce: a response, or a thrown value
TransportResults ==
    {Ret(Response(st, b)) : st \in Statuses, b \in RawBodies}
      \cup {Throw(NewError("TypeError", "fetch failed")),
            Throw(Str("connection refused"))}

(* --------------------------- parseResponse ---------------------------- *)
Fn(kind) == [t |-> "function", kind |-> kind]
\* parseResponse(parsedData) for the user functions that are tried
Apply(fn, arg) ==
    CASE fn.kind = "wrap" -> Ret([t |-> "wrapped", of |-> arg])
      [] fn.kind = "throwError" -> Throw(NewError("Error", "boom"))
      [] fn.kind = "throwString" -> Throw(Str("oops"))
      [] fn.kind = "throwHttpError" -> Throw(HttpError(418, "teapot"))
      [] OTHER -> Throw(POST_HttpError(418, "teapot"))


(* --------------------------------- GET -------------------------------- *)
RECURSIVE AppendAll(_, _)
AppendAll(query, params) ==
    IF params = <<>> THEN query
    ELSE AppendAll(Append(query, <<Head(params)[1], String(Head(params)[2])>>),
                   Tail(params))

\* appendQueryParams(url, params): params is the object's entries in order
appendQueryParams(url, params) ==
    LET urlObj == ParseUrl(url).v IN
    [urlObj EXCEPT !.query = AppendAll(urlObj.query, params.entries)]

\* { ...a, ...b }
Spread(a, b) ==
    [k \in DOMAIN a \cup DOMAIN b |-> IF k \in DOMAIN b THEN b[k] ELSE a[k]]

\* what a step of a call did: r is what it returned or threw, ev the
\* collaborators it called (in order), args the arguments parseResponse got
Did(r, ev, args) == [r |-> r, ev |-> ev, args |-> args]

\* GET up to its call of fetch: the request that is sent, or what is thrown
GET_request(cfg) ==
    LET contentType == Default(cfg.contentType, Str(JSON))
        additionalHeaders == Default(cfg.additionalHeaders, [k \in {} |-> Undef])
        fullUrl == buildUrl(cfg.baseUrl, cfg.route, cfg.url)
    IN IF fullUrl.thrown THEN fullUrl
       ELSE Ret([method |-> "GET",
                 url |-> IF cfg.queryParams # Undef
                         THEN appendQueryParams(fullUrl.v, cfg.queryParams)
                         ELSE fullUrl.v,
                 headers |-> Spread([k \in {"Accept"} |-> contentType],
                                   additionalHeaders),
                 body |-> Undef])

\* the catch block as it would be without its instanceof test
GET_catch_wrapAll(error) ==
    NewError("Error",
             "Request failed: " \o (IF IsError(error) THEN error.message
                                    ELSE "An unknown error occurred"))

\* the catch block of GET
GET_catch(error) ==
    IF InstanceOf(error, HttpErrorClass) \/ InstanceOf(error, ValidationErrorClass)
    THEN error
    ELSE NewError("Error",
                  "Request failed: " \o (IF IsError(error) THEN error.message
                                         ELSE "An unknown error occurred"))

\* the status check as it would be if only 4xx and 5xx counted as failures
GET_checkOk_from400(response) ==
    IF response.status >= 400
    THEN Throw(HttpError(response.status,
                         "Network response was not ok, status: "
                           \o ToString(response.status)))
    ELSE Ret(response)

\* the status check of GET
GET_checkOk(response) ==
    IF ~Ok(response)
    THEN Throw(HttpError(response.status,
                         "Network response was not ok, status: "
                           \o ToString(response.status)))
    ELSE Ret(response)

\* which reader of the body GET awaits
GET_reader(cfg) ==
    IF Default(cfg.contentType, Str(JSON)) = Str(JSON) THEN "json" ELSE "text"

\* the validation as it would be if the safe branch kept the decoded body
\* in place of result.data
GET_validate_rawInSafeMode(cfg, responseData) ==
    IF cfg.schema # Undef
    THEN IF Default(cfg.safeParse, Bool(FALSE)).b
         THEN LET result == zodSafeParse(cfg.schema, responseData) IN
              IF ~result.success
              THEN Did(Throw(ValidationError(result.error)),
                       <<"schema.safeParse">>, <<>>)
              ELSE Did(Ret(responseData), <<"schema.safeParse">>, <<>>)
         ELSE Did(zodParse(cfg.schema, responseData), <<"schema.parse">>, <<>>)
    ELSE Did(Ret(responseData), <<>>, <<>>)

\* the validation of the decoded body in GET
GET_validate(cfg, responseData) ==
    IF cfg.schema # Undef
    THEN IF Default(cfg.safeParse, Bool(FALSE)).b
         THEN LET result == zodSafeParse(cfg.schema, responseData) IN
              IF ~result.success
              THEN Did(Throw(ValidationError(result.error)),
                       <<"schema.safeParse">>, <<>>)
              ELSE Did(Ret(result.data), <<"schema.safeParse">>, <<>>)
         ELSE Did(zodParse(cfg.schema, responseData), <<"schema.parse">>, <<>>)
    ELSE Did(Ret(responseData), <<>>, <<>>)

\* the return statement of GET
GET_transform(cfg, parsedData) ==
    IF cfg.parseResponse # Undef
    THEN Did(Apply(cfg.parseResponse, parsedData), <<"parseResponse">>,
             <<parsedData>>)
    ELSE Did(Ret(parsedData), <<>>, <<>>)

\* GET from the moment the body has been read (or reading it has failed)
GET_afterBody(cfg, decoded) ==
    IF decoded.thrown THEN Did(Throw(GET_catch(decoded.v)), <<>>, <<>>)
    ELSE LET v == GET_validate(cfg, decoded.v) IN
         IF v.r.thrown THEN Did(Throw(GET_catch(v.r.v)), v.ev, <<>>)
         ELSE LET tr == GET_transform(cfg, v.r.v) IN
              Did(IF tr.r.thrown THEN Throw(GET_catch(tr.r.v)) ELSE tr.r,
                  v.ev \o tr.ev, tr.args)

(* -------------------------------- POST -------------------------------- *)
PercentEncode(s) ==
    CASE s = "a b" -> "a+b"
      [] OTHER -> s

RECURSIVE JoinJson(_)
JoinJson(entries) ==
    IF entries = <<>> THEN ""
    ELSE "\"" \o Head(entries)[1] \o "\":\"" \o Head(entries)[2] \o "\""
           \o (IF Len(entries) > 1 THEN "," ELSE "") \o JoinJson(Tail(entries))

\* JSON.stringify(body)
JSONStringify(body) ==
    IF body.t = "object" THEN "{" \o JoinJson(body.entries) \o "}"
    ELSE "\"" \o body.s \o "\""

RECURSIVE JoinForm(_)
JoinForm(entries) ==
    IF entries = <<>> THEN ""
    ELSE PercentEncode(Head(entries)[1]) \o "=" \o PercentEncode(Head(entries)[2])
           \o (IF Len(entries) > 1 THEN "&" ELSE "") \o JoinForm(Tail(entries))

\* new URLSearchParams(body).toString()
FormEncode(body) ==
    IF body.t = "object" THEN JoinForm(body.entries)
    ELSE IF body.s = "" THEN "" ELSE PercentEncode(body.s) \o "="

\* the switch that encodes the body
POST_requestBody(body, contentType) ==
    CASE contentType = Str(JSON) -> Ret(Str(JSONStringify(body)))
      [] contentType = Str(FORM_URLENCODED) -> Ret(Str(FormEncode(body)))
      [] contentType \in {Str(TEXT), Str(XML), Str(HTML)} -> Ret(body)
      [] OTHER -> Throw(NewError("Error",
                                 "Unsupported Content-Type: " \o contentType.s))

\* POST as it would be without its check of the body
POST_request_noBodyCheck(cfg) ==
    LET contentType == Default(cfg.contentType, Str(JSON))
        additionalHeaders == Default(cfg.additionalHeaders, [k \in {} |-> Undef])
        fullUrl == POST_buildUrl(cfg.baseUrl, cfg.route, cfg.url)
        requestBody == IF cfg.body = Undef THEN Ret(Undef)
                       ELSE POST_requestBody(cfg.body, contentType)
    IN IF fullUrl.thrown THEN fullUrl
       ELSE IF requestBody.thrown THEN requestBody
       ELSE Ret([method |-> "POST",
                 url |-> fullUrl.v,
                 headers |-> Spread([k \in {"Content-Type"} |-> contentType],
                                    additionalHeaders),
                 body |-> requestBody.v])

\* POST up to its call of fetch: the request that is sent, or what is thrown
POST_request(cfg) ==
    LET contentType == Default(cfg.contentType, Str(JSON))
        additionalHeaders == Default(cfg.additionalHeaders, [k \in {} |-> Undef])
        fullUrl == POST_buildUrl(cfg.baseUrl, cfg.route, cfg.url)
    IN IF fullUrl.thrown THEN fullUrl
       ELSE IF cfg.body = Undef
       THEN Throw(NewError("Error", "Body must be provided"))
       ELSE LET requestBody == POST_requestBody(cfg.body, contentType) IN
            IF requestBody.thrown THEN requestBody
            ELSE Ret([method |-> "POST",
                      url |-> fullUrl.v,
                      headers |-> Spread([k \in {"Content-Type"} |-> contentType],
                                         additionalHeaders),
                      body |-> requestBody.v])

\* the catch block of POST
POST_catch(error) ==
    IF InstanceOf(error, POST_HttpErrorClass)
         \/ InstanceOf(error, POST_ValidationErrorClass)
    THEN error
    ELSE NewError("Error",
                  "Request failed: " \o (IF IsError(error) THEN error.message
                                         ELSE "An unknown error occurred"))

\* the status check of POST
POST_checkOk(response) ==
    IF ~Ok(response)
    THEN Throw(POST_HttpError(response.status,
                              "Network response was not ok, status: "
                                \o ToString(response.status)))
    ELSE Ret(response)

\* which reader of the body POST awaits
POST_reader(cfg) ==
    IF Default(cfg.contentType, Str(JSON)) = Str(JSON) THEN "json" ELSE "text"

\* the validation of the decoded body in POST
POST_validate(cfg, responseData) ==
    IF cfg.schema # Undef
    THEN IF Default(cfg.safeParse, Bool(FALSE)).b
         THEN LET result == zodSafeParse(cfg.schema, responseData) IN
              IF ~result.success
              THEN Did(Throw(POST_ValidationError(result.error)),
                       <<"schema.safeParse">>, <<>>)
              ELSE Did(Ret(result.data), <<"schema.safeParse">>, <<>>)
         ELSE Did(zodParse(cfg.schema, responseData), <<"schema.parse">>, <<>>)
    ELSE Did(Ret(responseData), <<>>, <<>>)

\* the return statement of POST
POST_transform(cfg, parsedData) ==
    IF cfg.parseResponse # Undef
    THEN Did(Apply(cfg.parseResponse, parsedData), <<"parseResponse">>,
             <<parsedData>>)
    ELSE Did(Ret(parsedData), <<>>, <<>>)

\* POST as it would be if parseResponse were given the decoded body in place
\* of the validated value
POST_afterBody_transformDecoded(cfg, decoded) ==
    IF decoded.thrown THEN Did(Throw(POST_catch(decoded.v)), <<>>, <<>>)
    ELSE LET v == POST_validate(cfg, decoded.v) IN
         IF v.r.thrown THEN Did(Throw(POST_catch(v.r.v)), v.ev, <<>>)
         ELSE LET tr == POST_transform(cfg, decoded.v) IN
              Did(IF tr.r.thrown THEN Throw(POST_catch(tr.r.v)) ELSE tr.r,
                  v.ev \o tr.ev, tr.args)

\* POST from the moment the body has been read (or reading it has failed)
POST_afterBody(cfg, decoded) ==
    IF decoded.thrown THEN Did(Throw(POST_catch(decoded.v)), <<>>, <<>>)
    ELSE LET v == POST_validate(cfg, decoded.v) IN
         IF v.r.thrown THEN Did(Throw(POST_catch(v.r.v)), v.ev, <<>>)
         ELSE LET tr == POST_transform(cfg, v.r.v) IN
              Did(IF tr.r.thrown THEN Throw(POST_catch(tr.r.v)) ELSE tr.r,
                  v.ev \o tr.ev, tr.args)


(* ------------------------------ the state ----------------------------- *)
VARIABLES
    pc,         \* where each call stands: idle, awaitFetch, awaitBody, done
    config,     \* the configuration each call was made with
    request,    \* what each call passed to fetch
    response,   \* what awaiting fetch gave each call
    outcome,    \* how each call's promise settled: Ret(value) or Throw(error)
    log,        \* the collaborators each call has called, in order
    parseArgs,  \* the arguments each call has passed to parseResponse
    urlArgs,    \* the arguments of a direct call of buildUrl
    urlResult,  \* what that call returned or threw
    urlBy       \* which copy of buildUrl was called

vars == <<pc, config, request, response, outcome, log, parseArgs,
          urlArgs, urlResult, urlBy>>
callVars == <<pc, config, request, response, outcome, log, parseArgs>>
urlVars == <<urlArgs, urlResult, urlBy>>

Calls == 1..NumCalls
None == [t |-> "none"]

(* -------------------------- the inputs tried -------------------------- *)
Segs == {"x", "..", "."}
Paths == UNION {[1..n -> Segs] : n \in 0..MaxPath}

UrlInputs ==
    {Undef, EmptyString}
      \cup {UrlText(s, h, TRUE, p) :
              s \in {"http", "HTTP", ""}, h \in {"A.COM", ""}, p \in Paths}
GoodBase == UrlText("http", "a.com", TRUE, <<"api", "v1">>)
BaseInputs ==
    {Undef, EmptyString, GoodBase, UrlText("HTTP", "A.COM", TRUE, <<>>),
     UrlText("", "a.com", TRUE, <<>>)}
GoodRoute == UrlText("", "", TRUE, <<"users">>)
RouteInputs ==
    {Undef, EmptyString, GoodRoute, UrlText("", "", FALSE, <<"..", "y">>),
     UrlText("http", "b.org", TRUE, <<>>)}

GoodUrl == UrlText("HTTP", "A.COM", TRUE, <<"x", "..", "y">>)
BadUrl == UrlText("", "a.com", FALSE, <<"y">>)
Target(url, baseUrl, route) ==
    [url |-> url, baseUrl |-> baseUrl, route |-> route]
Targets ==
    {Target(GoodUrl, Undef, Undef), Target(Undef, GoodBase, GoodRoute),
     Target(Undef, GoodBase, Undef), Target(BadUrl, GoodBase, GoodRoute)}

Config(method, target, queryParams, body, contentType, schema, safeParse, additionalHeaders, parseResponse) ==
    [method |-> method, url |-> target.url, baseUrl |-> target.baseUrl,
     route |-> target.route, queryParams |-> queryParams, body |-> body,
     contentType |-> contentType, schema |-> schema, safeParse |-> safeParse,
     additionalHeaders |-> additionalHeaders, parseResponse |-> parseResponse]

ContentTypeInputs == {Undef, Str("image/png")} \cup {Str(ct) : ct \in ContentType}
SchemaInputs == {Undef, Schema("id"), Schema("trim")}
SafeParseInputs == {Undef, Bool(FALSE), Bool(TRUE)}
ParseResponseInputs ==
    {Undef, Fn("wrap"), Fn("throwError"), Fn("throwString"),
     Fn("throwHttpError"), Fn("throwPostHttpError")}
QueryInputs ==
    {Undef, Obj(<< <<"a", Num(1)>>, <<"b", Str("x")>>, <<"c", Bool(TRUE)>> >>)}
BodyInputs ==
    {Undef, Obj(<< <<"x", "1">>, <<"y", "a b">> >>), Str("hi")}
HeaderInputs == {Undef, [k \in {"Accept", "X-Token"} |-> Str("*/*")]}

\* every configuration, for one call at a time
Configs ==
    {Config("GET", tg, q, Undef, ct, sc, sp, h, pr) :
       tg \in Targets, q \in QueryInputs, ct \in ContentTypeInputs,
       sc \in SchemaInputs, sp \in SafeParseInputs, h \in HeaderInputs,
       pr \in ParseResponseInputs}
      \cup
    {Config("POST", tg, Undef, b, ct, sc, sp, h, pr) :
       tg \in Targets, b \in BodyInputs, ct \in ContentTypeInputs,
       sc \in SchemaInputs, sp \in SafeParseInputs, h \in HeaderInputs,
       pr \in ParseResponseInputs}


\* the configurations that are run side by side
ConcConfigs ==
    {Config(m, Target(GoodUrl, Undef, Undef), Undef,
            IF m = "POST" THEN Str("hi") ELSE Undef, Undef, sc, sp, Undef,
            Fn("wrap")) :
       m \in {"GET", "POST"}, sc \in {Undef, Schema("id")},
       sp \in {Bool(FALSE), Bool(TRUE)}}
      \cup
    {Config(m, Target(Undef, GoodBase, Undef), Undef, Undef, Undef, Undef,
            Undef, Undef, Undef) : m \in {"GET", "POST"}}
ConcTransportResults ==
    {Ret(Response(200, RawJ1)), Ret(Response(200, RawT1)),
     Ret(Response(404, RawJ1)), Throw(NewError("TypeError", "fetch failed"))}

(* ------------------------------ the calls ----------------------------- *)
\* the response as it would be if it were kept in one slot of the module,
\* filled by the first call
ResponseOf_moduleSlot(c) ==
    IF response[1] # None /\ ~response[1].thrown THEN response[1]
    ELSE response[c]

\* the response a call reads its body from: the local const response
ResponseOf(c) == response[c]

\* response.json() or response.text(), once it settles
Decode(reader, raw) == IF reader = "json" THEN JSONParse(raw) ELSE ReadText(raw)

Last(seq) == seq[Len(seq)]

Settle(c, result) ==
    /\ pc' = [pc EXCEPT ![c] = "done"]
    /\ outcome' = [outcome EXCEPT ![c] = result]

\* GET(config) is called: it runs up to its first await
GET(c, cfgs) ==
    /\ pc[c] = "idle"
    /\ \E cfg \in {k \in cfgs : k.method = "GET"} :
         LET req == GET_request(cfg) IN
         /\ config' = [config EXCEPT ![c] = cfg]
         /\ IF req.thrown
            THEN Settle(c, req) /\ UNCHANGED <<request, log>>
            ELSE /\ pc' = [pc EXCEPT ![c] = "awaitFetch"]
                 /\ request' = [request EXCEPT ![c] = req.v]
                 /\ log' = [log EXCEPT ![c] = Append(@, "fetch")]
                 /\ UNCHANGED outcome
    /\ UNCHANGED <<response, parseArgs, urlVars>>

\* the fetch of a GET settles, and GET runs on to its next await or its end
GET_fetchSettled(c, results) ==
    /\ pc[c] = "awaitFetch"
    /\ config[c].method = "GET"
    /\ \E tr \in results :
         /\ response' = [response EXCEPT ![c] = tr]
         /\ IF tr.thrown
            THEN Settle(c, Throw(GET_catch(tr.v))) /\ UNCHANGED log
            ELSE LET ok == GET_checkOk(tr.v) IN
                 IF ok.thrown
                 THEN Settle(c, Throw(GET_catch(ok.v))) /\ UNCHANGED log
                 ELSE /\ pc' = [pc EXCEPT ![c] = "awaitBody"]
                      /\ log' = [log EXCEPT ![c] = Append(@, GET_reader(config[c]))]
                      /\ UNCHANGED outcome
    /\ UNCHANGED <<config, request, parseArgs, urlVars>>

\* the body of a GET response has been read, and GET runs to its end
GET_bodySettled(c) ==
    /\ pc[c] = "awaitBody"
    /\ config[c].method = "GET"
    /\ LET did == GET_afterBody(config[c],
                                Decode(Last(log[c]), ResponseOf(c).v.body)) IN
       /\ Settle(c, did.r)
       /\ log' = [log EXCEPT ![c] = @ \o did.ev]
       /\ parseArgs' = [parseArgs EXCEPT ![c] = @ \o did.args]
    /\ UNCHANGED <<config, request, response, urlVars>>

\* POST(config) is called: it runs up to its first await
POST(c, cfgs) ==
    /\ pc[c] = "idle"
    /\ \E cfg \in {k \in cfgs : k.method = "POST"} :
         LET req == POST_request(cfg) IN
         /\ config' = [config EXCEPT ![c] = cfg]
         /\ IF req.thrown
            THEN Settle(c, req) /\ UNCHANGED <<request, log>>
            ELSE /\ pc' = [pc EXCEPT ![c] = "awaitFetch"]
                 /\ request' = [request EXCEPT ![c] = req.v]
                 /\ log' = [log EXCEPT ![c] = Append(@, "fetch")]
                 /\ UNCHANGED outcome
    /\ UNCHANGED <<response, parseArgs, urlVars>>

\* the fetch of a POST settles, and POST runs on to its next await or its end
POST_fetchSettled(c, results) ==
    /\ pc[c] = "awaitFetch"
    /\ config[c].method = "POST"
    /\ \E tr \in results :
         /\ response' = [response EXCEPT ![c] = tr]
         /\ IF tr.thrown
            THEN Settle(c, Throw(POST_catch(tr.v))) /\ UNCHANGED log
            ELSE LET ok == POST_checkOk(tr.v) IN
                 IF ok.thrown
                 THEN Settle(c, Throw(POST_catch(ok.v))) /\ UNCHANGED log
                 ELSE /\ pc' = [pc EXCEPT ![c] = "awaitBody"]
                      /\ log' = [log EXCEPT ![c] = Append(@, POST_reader(config[c]))]
                      /\ UNCHANGED outcome
    /\ UNCHANGED <<config, request, parseArgs, urlVars>>

\* the body of a POST response has been read, and POST runs to its end
POST_bodySettled(c) ==
    /\ pc[c] = "awaitBody"
    /\ config[c].method = "POST"
    /\ LET did == POST_afterBody(config[c],
                                 Decode(Last(log[c]), ResponseOf(c).v.body)) IN
       /\ Settle(c, did.r)
       /\ log' = [log EXCEPT ![c] = @ \o did.ev]
       /\ parseArgs' = [parseArgs EXCEPT ![c] = @ \o did.args]
    /\ UNCHANGED <<config, request, response, urlVars>>

\* buildUrl is called directly, once, with the arguments drawn in InitUrl
CallBuildUrl ==
    /\ urlBy = "none"
    /\ urlBy' = "utils/toolkit"
    /\ urlResult' = buildUrl(urlArgs.baseUrl, urlArgs.route, urlArgs.url)
    /\ UNCHANGED <<urlArgs, callVars>>

CallPostBuildUrl ==
    /\ urlBy = "none"
    /\ urlBy' = "methods/post"
    /\ urlResult' = POST_buildUrl(urlArgs.baseUrl, urlArgs.route, urlArgs.url)
    /\ UNCHANGED <<urlArgs, callVars>>

(* -------------------------- the specifications ------------------------ *)
InitCalls ==
    /\ pc = [c \in Calls |-> "idle"]
    /\ config = [c \in Calls |-> None]
    /\ request = [c \in Calls |-> None]
    /\ response = [c \in Calls |-> None]
    /\ outcome = [c \in Calls |-> None]
    /\ log = [c \in Calls |-> <<>>]
    /\ parseArgs = [c \in Calls |-> <<>>]

\* one call at a time, over every configuration and transport result
Init ==
    /\ InitCalls
    /\ urlArgs = None /\ urlResult = None /\ urlBy = "none"

Next ==
    \/ GET(1, Configs)
    \/ POST(1, Configs)
    \/ GET_fetchSettled(1, TransportResults)
    \/ POST_fetchSettled(1, TransportResults)
    \/ GET_bodySettled(1)
    \/ POST_bodySettled(1)

Spec == Init /\ [][Next]_vars

\* NumCalls calls side by side, their awaits settling in any order
NextConc ==
    \E c \in Calls :
        \/ GET(c, ConcConfigs)
        \/ POST(c, ConcConfigs)
        \/ GET_fetchSettled(c, ConcTransportResults)
        \/ POST_fetchSettled(c, ConcTransportResults)
        \/ GET_bodySettled(c)
        \/ POST_bodySettled(c)

SpecConc == Init /\ [][NextConc]_vars

\* buildUrl alone, over the URL texts of UrlInputs, BaseInputs, RouteInputs
InitUrl ==
    /\ InitCalls
    /\ urlArgs \in {Target(u, b, r) :
                      u \in UrlInputs, b \in BaseInputs, r \in RouteInputs}
    /\ urlResult = None
    /\ urlBy = "none"

NextUrl == CallBuildUrl \/ CallPostBuildUrl

SpecUrl == InitUrl /\ [][NextUrl]_vars


(* ------------------------ vocabulary of the claims -------------------- *)
Done(c) == pc[c] = "done"
Count(seq, e) == Cardinality({i \in DOMAIN seq : seq[i] = e})
Raised(c) == Done(c) /\ outcome[c].thrown
Returned(c) == Done(c) /\ ~outcome[c].thrown

ContentTypeOf(cfg) == Default(cfg.contentType, Str(JSON))
GotResponse(c) == response[c] # None /\ ~response[c].thrown
Is2xx(c) ==
    GotResponse(c) /\ response[c].v.status >= 200 /\ response[c].v.status <= 299
\* the body of the response of c, decoded as its content type asks
DecodedBody(c) ==
    IF ContentTypeOf(config[c]) = Str(JSON) THEN JSONParse(response[c].v.body)
    ELSE ReadText(response[c].v.body)
IsDecoded(c) == Is2xx(c) /\ ~DecodedBody(c).thrown
SchemaRejects(c) ==
    /\ IsDecoded(c)
    /\ config[c].schema # Undef
    /\ ~zodSafeParse(config[c].schema, DecodedBody(c).v).success
SchemaAccepts(c) ==
    /\ IsDecoded(c)
    /\ config[c].schema # Undef
    /\ zodSafeParse(config[c].schema, DecodedBody(c).v).success
\* the validated value: the decoded body itself when no schema is supplied
ValidatedValue(c) ==
    IF config[c].schema = Undef THEN DecodedBody(c).v
    ELSE zodSafeParse(config[c].schema, DecodedBody(c).v).data
IsValidated(c) == IsDecoded(c) /\ (config[c].schema = Undef \/ SchemaAccepts(c))

WellFormed(u) == u # Undef /\ u.scheme # "" /\ u.host # ""
Unresolvable(cfg) ==
    IF Truthy(cfg.url) THEN ~WellFormed(cfg.url)
    ELSE \/ ~Truthy(cfg.baseUrl)
         \/ ~Truthy(cfg.route)
         \/ ParseUrlWithBase(cfg.route, cfg.baseUrl).thrown
ConfigurationError(cfg) ==
    \/ Unresolvable(cfg)
    \/ cfg.method = "POST" /\ cfg.body = Undef
    \/ cfg.method = "POST" /\ ContentTypeOf(cfg).s \notin ContentType

HttpErrorMessage(status) ==
    "Network response was not ok, status: " \o ToString(status)

(* ------------------------------- C1 ----------------------------------- *)
\* C1: every call whose response is 2xx and whose decoded body the schema
\* rejects raises a ValidationError that carries the schema engine's error,
\* with safeParse false as with safeParse true.
C1_ValidationErrorInBothModes ==
    \A c \in Calls :
        (Done(c) /\ SchemaRejects(c)) =>
            /\ outcome[c].thrown
            /\ outcome[c].v.name = "ValidationError"
            /\ outcome[c].v.zodError =
                 zodSafeParse(config[c].schema, DecodedBody(c).v).error

(* ------------------------------- C2 ----------------------------------- *)
\* C2: a call whose transport returns a status outside 200..299 raises an
\* HttpError with that status and the message 'Network response was not ok,
\* status: <status>', whatever the content type, schema and safeParse; it
\* has called fetch and nothing else: the body is not read, the schema is
\* not run, parseResponse is not applied.
C2_NonOkRaisesHttpError ==
    \A c \in Calls :
        (GotResponse(c) /\ ~Is2xx(c)) =>
            /\ Raised(c)
            /\ outcome[c].v.name = "HttpError"
            /\ outcome[c].v.status = response[c].v.status
            /\ outcome[c].v.message = HttpErrorMessage(response[c].v.status)
            /\ log[c] = <<"fetch">>
            /\ parseArgs[c] = <<>>

C2_Witness ==
    \E c \in Calls :
        /\ Done(c) /\ GotResponse(c) /\ response[c].v.status = 404
        /\ config[c].method = "POST"
        /\ config[c].schema = Schema("trim")
        /\ config[c].safeParse = Bool(TRUE)
        /\ config[c].contentType = Str(HTML)
        /\ config[c].parseResponse = Fn("wrap")
        /\ outcome[c].v.status = 404

(* ------------------------------- C3 ----------------------------------- *)
\* C3: a call that fails with a configuration error (POST without body,
\* POST with a content type outside the enum, unresolvable URL components)
\* has raised without ever calling the transport.
C3_ConfigurationErrorBeforeTransport ==
    \A c \in Calls :
        (config[c] # None /\ ConfigurationError(config[c])) =>
            /\ Raised(c)
            /\ Count(log[c], "fetch") = 0
            /\ request[c] = None
            /\ response[c] = None

C3_Witness ==
    \E c \in Calls :
        /\ Raised(c)
        /\ config[c].method = "POST"
        /\ ~Unresolvable(config[c])
        /\ config[c].body = Undef
        /\ outcome[c].v.message = "Body must be provided"
        /\ log[c] = <<>>


(* ------------------------------- C4 ----------------------------------- *)
\* the failures C4 is about: the value thrown by the transport, by the JSON
\* parser, or by parseResponse
OtherFailure(c) ==
    \/ response[c] # None /\ response[c].thrown
    \/ Is2xx(c) /\ DecodedBody(c).thrown
    \/ /\ IsValidated(c)
       /\ config[c].parseResponse # Undef
       /\ Apply(config[c].parseResponse, ValidatedValue(c)).thrown
OriginalError(c) ==
    IF response[c].thrown THEN response[c].v
    ELSE IF DecodedBody(c).thrown THEN DecodedBody(c).v
    ELSE Apply(config[c].parseResponse, ValidatedValue(c)).v
RequestFailed(e) ==
    NewError("Error",
             "Request failed: " \o (IF e.t = "error" THEN e.message
                                    ELSE "An unknown error occurred"))
\* the two classes the catch block of the called function tests for
PassedThrough(c, e) ==
    /\ e.t = "error"
    /\ e.class \in (IF config[c].method = "GET"
                    THEN {HttpErrorClass, ValidationErrorClass}
                    ELSE {POST_HttpErrorClass, POST_ValidationErrorClass})

\* C4 as stated: every failure at or after the transport call that is
\* neither a non-2xx status nor a schema rejection reaches the caller as
\* the generic error 'Request failed: <original message>', or 'Request
\* failed: An unknown error occurred' when the thrown value is no Error.
C4_EveryOtherFailureIsWrapped ==
    \A c \in Calls :
        (Done(c) /\ OtherFailure(c)) =>
            outcome[c] = Throw(RequestFailed(OriginalError(c)))

\* C4 as amended: the same, except that a thrown value which is an instance
\* of the HttpError or ValidationError class the called function's catch
\* block tests for is re-thrown as it is.
C4_OtherFailureIsWrappedUnlessPassedThrough ==
    \A c \in Calls :
        (Done(c) /\ OtherFailure(c)) =>
            outcome[c] = IF PassedThrough(c, OriginalError(c))
                         THEN Throw(OriginalError(c))
                         ELSE Throw(RequestFailed(OriginalError(c)))

C4_Witness ==
    \E c \in Calls :
        /\ Done(c) /\ OtherFailure(c)
        /\ Is2xx(c)
        /\ config[c].parseResponse = Fn("throwString")
        /\ outcome[c].v.message = "Request failed: An unknown error occurred"
        /\ outcome[c].v.class = "Error"

(* ------------------------------- C5 ----------------------------------- *)
NoDots(segs) == \A i \in DOMAIN segs : segs[i] \notin {".", ".."}

\* C5: for a well-formed absolute url, buildUrl returns the normalised form
\* of that url (lower-case scheme and host, dot segments resolved), the
\* same whatever baseUrl and route are.
C5_UrlWinsOverBaseAndRoute ==
    (urlBy # "none" /\ WellFormed(urlArgs.url)) =>
        /\ ~urlResult.thrown
        /\ urlResult.v = ParseUrl(urlArgs.url).v
        /\ urlResult.v.scheme = "http" /\ urlResult.v.host = "a.com"
        /\ NoDots(urlResult.v.segs)

C5_Witness ==
    /\ urlBy = "methods/post"
    /\ urlArgs.url = UrlText("HTTP", "A.COM", TRUE, <<"x", "..">>)
    /\ urlArgs.baseUrl = GoodBase
    /\ urlArgs.route = UrlText("http", "b.org", TRUE, <<>>)
    /\ urlResult = Ret(UrlText("http", "a.com", TRUE, <<"">>))

(* ------------------------------- C6 ----------------------------------- *)
InvalidUrlFailure(r) ==
    /\ r.thrown
    /\ r.v.class = "Error"
    /\ \E reason \in {MissingMsg, "Invalid URL"} :
         r.v.message = "Invalid URL: " \o reason

\* C6 as stated: with no url and baseUrl or route missing, buildUrl fails
\* with the generic error 'Invalid URL: <reason>'; so it does when url is
\* given but malformed, even when baseUrl and route form a valid pair.
C6_MissingOrMalformedFails ==
    (urlBy # "none"
       /\ \/ urlArgs.url = Undef /\ (urlArgs.baseUrl = Undef \/ urlArgs.route = Undef)
          \/ urlArgs.url # Undef /\ ~WellFormed(urlArgs.url))
    => InvalidUrlFailure(urlResult)

\* C6 as amended: the malformed url has to be a non-empty string; the empty
\* string counts as no url, and buildUrl then falls back to the pair.
C6_MissingOrNonEmptyMalformedFails ==
    (urlBy # "none"
       /\ \/ ~Truthy(urlArgs.url)
             /\ (~Truthy(urlArgs.baseUrl) \/ ~Truthy(urlArgs.route))
          \/ Truthy(urlArgs.url) /\ ~WellFormed(urlArgs.url))
    => InvalidUrlFailure(urlResult)

C6_Witness ==
    /\ urlBy = "utils/toolkit"
    /\ urlArgs.url = UrlText("", "A.COM", TRUE, <<"x">>)
    /\ urlArgs.baseUrl = GoodBase
    /\ urlArgs.route = GoodRoute
    /\ urlResult.thrown
    /\ urlResult.v.message = "Invalid URL: Invalid URL"

\* the empty url with a valid pair: buildUrl returns the joined URL
C6_EmptyUrlFallsBack ==
    /\ urlBy # "none"
    /\ urlArgs.url = EmptyString
    /\ urlArgs.baseUrl = GoodBase
    /\ urlArgs.route = GoodRoute
    /\ urlResult = Ret(UrlText("http", "a.com", TRUE, <<"users">>))

(* ------------------------------- C7 ----------------------------------- *)
OnlySafeParseDiffers(c, d) ==
    /\ config[c] # None /\ config[d] # None
    /\ config[c].safeParse # config[d].safeParse
    /\ [config[c] EXCEPT !.safeParse = Undef] = [config[d] EXCEPT !.safeParse = Undef]
    /\ Default(config[c].safeParse, Bool(FALSE)).b
    /\ ~Default(config[d].safeParse, Bool(FALSE)).b

\* C7: two calls that differ only in safeParse, with the same 2xx response
\* whose decoded body the schema accepts, settle alike, and what they pass
\* on is the value the schema validated.
C7_SafeParseModesAgree ==
    \A c, d \in Calls :
        (/\ Done(c) /\ Done(d)
         /\ OnlySafeParseDiffers(c, d)
         /\ response[c] = response[d]
         /\ SchemaAccepts(c)) =>
            /\ outcome[c] = outcome[d]
            /\ outcome[c] = Ret([t |-> "wrapped", of |-> ValidatedValue(c)])

C7_Witness ==
    \E c, d \in Calls :
        /\ Done(c) /\ Done(d)
        /\ OnlySafeParseDiffers(c, d)
        /\ response[c] = response[d]
        /\ SchemaAccepts(c)
        /\ DecodedBody(c).v # ValidatedValue(c)
        /\ Returned(c) /\ Returned(d)


(* ------------------------------- C8 ----------------------------------- *)
\* a call that fails before parseResponse is reached
FailsBeforeTransform(c) ==
    \/ ConfigurationError(config[c])
    \/ response[c] # None /\ response[c].thrown
    \/ GotResponse(c) /\ ~Is2xx(c)
    \/ Is2xx(c) /\ DecodedBody(c).thrown
    \/ SchemaRejects(c)

\* C8: a call that supplies parseResponse and succeeds has applied it once,
\* to the validated value (the decoded body when there is no schema), as
\* the last thing it did, after the body was read and the schema was run,
\* and has returned its result; a call that fails at URL resolution, body
\* check, encoding, transport, status check, decoding or validation has not
\* applied it.
C8_ParseResponseOnceOnValidated ==
    \A c \in Calls :
        /\ (Returned(c) /\ config[c].parseResponse # Undef) =>
              /\ Count(log[c], "parseResponse") = 1
              /\ Last(log[c]) = "parseResponse"
              /\ Count(log[c], "json") + Count(log[c], "text") = 1
              /\ config[c].schema # Undef =>
                   Count(log[c], "schema.parse")
                     + Count(log[c], "schema.safeParse") = 1
              /\ parseArgs[c] = <<ValidatedValue(c)>>
              /\ outcome[c] = Apply(config[c].parseResponse, ValidatedValue(c))
        /\ (Done(c) /\ FailsBeforeTransform(c)) =>
              /\ Raised(c)
              /\ Count(log[c], "parseResponse") = 0
              /\ parseArgs[c] = <<>>

C8_Witness ==
    \E c \in Calls :
        /\ Returned(c)
        /\ config[c].parseResponse = Fn("wrap")
        /\ config[c].schema = Schema("id")
        /\ DecodedBody(c).v # ValidatedValue(c)
        /\ log[c] = <<"fetch", "json", "schema.safeParse", "parseResponse">>
        /\ outcome[c].v.of = Obj(<< <<"id", "7">> >>)

(* ------------------------------- C9 ----------------------------------- *)
\* the outcome of a call made alone with configuration cfg, when the
\* transport gives it tr
RunAlone(cfg, tr) ==
    LET get == cfg.method = "GET"
        req == IF get THEN GET_request(cfg) ELSE POST_request(cfg)
    IN IF req.thrown THEN req
       ELSE IF tr.thrown
       THEN Throw(IF get THEN GET_catch(tr.v) ELSE POST_catch(tr.v))
       ELSE LET ok == IF get THEN GET_checkOk(tr.v) ELSE POST_checkOk(tr.v) IN
            IF ok.thrown
            THEN Throw(IF get THEN GET_catch(ok.v) ELSE POST_catch(ok.v))
            ELSE IF get
                 THEN GET_afterBody(cfg, Decode(GET_reader(cfg), tr.v.body)).r
                 ELSE POST_afterBody(cfg, Decode(POST_reader(cfg), tr.v.body)).r

\* C9: whatever the order in which the awaits of the calls in flight
\* settle, each call settles as the same call made alone, with the same
\* configuration and the same transport response, would.
C9_CallsAreIndependent ==
    \A c \in Calls :
        Done(c) => outcome[c] = RunAlone(config[c], response[c])

C9_Witness ==
    \E c, d \in Calls :
        /\ c # d /\ Done(c) /\ Done(d)
        /\ config[c].method = "GET" /\ config[d].method = "POST"
        /\ Is2xx(c) /\ Is2xx(d)
        /\ response[c] # response[d]
        /\ Returned(c) /\ Raised(d)

(* ------------------------------- C10 ---------------------------------- *)
\* C10: an HttpError or ValidationError raised by POST is an instance of
\* the class the package index exports under that name, the class GET
\* raises.
C10_PostRaisesExportedClasses ==
    \A c \in Calls :
        (Raised(c) /\ config[c].method = "POST" /\ IsError(outcome[c].v)) =>
            /\ outcome[c].v.name = "HttpError" =>
                 InstanceOf(outcome[c].v, ExportedHttpError)
            /\ outcome[c].v.name = "ValidationError" =>
                 InstanceOf(outcome[c].v, ExportedValidationError)

=============================================================================
